---------------------------- MODULE Spec2Model ----------------------------
(***************************************************************************)
(* Model of the label-vocabulary builder (src/src/process/vocab.py) and of  *)
(* the yearly sequence builder (src/src/process/sequence.py).               *)
(*                                                                         *)
(* Both are batch functions over an event table.  A table (a DataFrame) is  *)
(* a sequence of rows [patient_id, visit_date, code_norm].  Spec applies    *)
(* build_yearly_sequences to every table/parameter combination of the       *)
(* bounded input sets, SpecVocab applies build_label_vocab.                 *)
(***************************************************************************)
EXTENDS Integers, Sequences, FiniteSets, TLC

VARIABLES
    df_events,      \* the event table handed to the function
    label_to_id,    \* sequence.py: Dict[str,int];  vocab.py: the returned dict
    history_years,  \* sequence.py parameter
    min_year,       \* sequence.py parameter
    max_year,       \* sequence.py parameter
    min_patients,   \* vocab.py parameter
    top_k,          \* vocab.py parameter: <<>> is None, <<k>> is the int k
    pc,             \* "call" before the function runs, "done" after
    rows,           \* sequence.py: the local list `rows` when the call ended
    raised,         \* exception that ended the call, "none" for a normal return
    ret             \* sequence.py: <<train, val, test>> of a normal return

vars == <<df_events, label_to_id, history_years, min_year, max_year,
          min_patients, top_k, pc, rows, raised, ret>>

-----------------------------------------------------------------------------
(* Bounds of the input sets *)

MaxEvents == 3          \* rows of a table given to build_yearly_sequences
MaxVocabEvents == 4     \* rows of a table given to build_label_vocab
MaxHistory == 2         \* largest history_years

PatientOrder == <<"P1", "P2">>          \* patient ids, ascending
VocabPatientOrder == <<"P1", "P2", "P3">>
CodeOrder == <<"X", "Z">>               \* normalized codes, ascending
VocabCodeOrder == <<"A", "B", "C">>
DateOrder == <<"2018-03-09", "2019-07-21", "2020-11-02", "not-a-date">>
MinYears == {2018, 2019}
MaxYears == {2019, 2020}
HistoryChoices == (0 - 1) .. MaxHistory
MinPatientsChoices == 1 .. 3
TopKChoices == {<<>>, <<0>>, <<1>>, <<2>>}

-----------------------------------------------------------------------------
(* Generic helpers *)

Range(s) == {s[i] : i \in DOMAIN s}

SetMin(S) == CHOOSE x \in S : \A y \in S : x <= y

Injective(s) == \A i, j \in DOMAIN s : i # j => s[i] # s[j]

\* position of x in the sequence s (x occurs in s)
IndexOf(s, x) == CHOOSE i \in DOMAIN s : s[i] = x

\* Tables are enumerated up to row permutation: one representative per
\* multiset of rows, the rows taken in the order of `kinds`.
TablesOver(kinds, maxLen) ==
    UNION { { [i \in 1..n |-> kinds[f[i]]] :
                f \in { g \in [1..n -> DOMAIN kinds] :
                          \A i \in 1..n : i < n => g[i] <= g[i+1] } } :
            n \in 0..maxLen }

RowKinds(patients, dates, codes) ==
    LET np == Len(patients)
        nd == Len(dates)
        nc == Len(codes)
    IN  [k \in 1..(np * nd * nc) |->
            [patient_id |-> patients[((k - 1) \div (nd * nc)) + 1],
             visit_date |-> dates[(((k - 1) \div nc) % nd) + 1],
             code_norm  |-> codes[((k - 1) % nc) + 1]]]

-----------------------------------------------------------------------------
(* sequence.py: build_yearly_sequences *)

\* A missing value of the "year" column (the year of NaT).
NaN == -1

\* pd.to_datetime(visit_date, errors="coerce").dt.year of one cell: the year
\* of a date that parses, NaN for one that does not.
ToYear(visit_date) ==
    CASE visit_date = "2018-03-09" -> 2018
      [] visit_date = "2019-07-21" -> 2019
      [] visit_date = "2020-11-02" -> 2020
      [] OTHER -> NaN

\* df["year"] = ... : the table with its derived year column.
WithYear(df) ==
    [i \in DOMAIN df |-> [patient_id |-> df[i].patient_id,
                          code_norm  |-> df[i].code_norm,
                          year       |-> ToYear(df[i].visit_date)]]

\* dtype of the year column: .dt.year is an integer column, and a float64
\* column as soon as one date is NaT.  Row filtering keeps the dtype.
YearDtype(df) ==
    IF \E i \in DOMAIN df : ToYear(df[i].visit_date) = NaN
    THEN "float64" ELSE "int"

\* df[(df["year"] >= min_year) & (df["year"] <= max_year)] : a comparison
\* with NaN is False.
InYearRange(year, lo, hi) == year # NaN /\ year >= lo /\ year <= hi

FilterYears(df, lo, hi) ==
    LET Keep(r) == InYearRange(r.year, lo, hi)
    IN  SelectSeq(WithYear(df), Keep)

RECURSIVE SetToSortedSeq(_)
SetToSortedSeq(S) ==
    IF S = {} THEN <<>>
    ELSE LET m == SetMin(S) IN <<m>> \o SetToSortedSeq(S \ {m})

RECURSIVE Concat(_)
Concat(ss) == IF ss = <<>> THEN <<>> ELSE Head(ss) \o Concat(Tail(ss))

\* df.sort_values("year"): rows by ascending year, rows of one year in
\* table order.
SortByYear(df) ==
    LET ys == SetToSortedSeq({df[i].year : i \in DOMAIN df})
    IN  Concat([k \in DOMAIN ys |->
                  LET OfYear(r) == r.year = ys[k] IN SelectSeq(df, OfYear)])

\* .groupby("patient_id"): the group keys in ascending order, and one group.
GroupKeys(df) ==
    LET Present(p) == \E i \in DOMAIN df : df[i].patient_id = p
    IN  SelectSeq(PatientOrder, Present)

Group(df, pid) ==
    LET OfPatient(r) == r.patient_id = pid IN SelectSeq(df, OfPatient)

\* sorted(g["year"].unique().tolist())
GroupYears(g) == SetToSortedSeq({g[i].year : i \in DOMAIN g})

\* Slip: the window runs up to and including the target year.
HistWindowThroughTarget(Y, H) ==
    [i \in 1..(IF H > 0 THEN H ELSE 0) |-> Y - H + i]

\* list(range(Y - history_years, Y))
HistWindow(Y, H) == [i \in 1..(IF H > 0 THEN H ELSE 0) |-> Y - H + i - 1]

RECURSIVE Dedup(_)
Dedup(s) ==
    IF s = <<>> THEN <<>>
    ELSE LET d == Dedup(SubSeq(s, 1, Len(s) - 1))
         IN  IF s[Len(s)] \in Range(d) THEN d ELSE Append(d, s[Len(s)])

\* Slip: the codes of a year are deduplicated (.unique()).
CodesOfYearUnique(g, y) ==
    LET OfYear(r) == r.year = y
        sel == SelectSeq(g, OfYear)
    IN  Dedup([i \in DOMAIN sel |-> sel[i].code_norm])

\* g.loc[g["year"] == y, "code_norm"].dropna().tolist()
\* (code_norm is a string in every row, so dropna() drops nothing)
CodesOfYear(g, y) ==
    LET OfYear(r) == r.year = y
        sel == SelectSeq(g, OfYear)
    IN  [i \in DOMAIN sel |-> sel[i].code_norm]

\* hist: one codes_y per year of the window
Hist(g, hist_window) ==
    [i \in DOMAIN hist_window |-> CodesOfYear(g, hist_window[i])]

\* df["code_norm"].isin(label_to_id)
CodeInVocab(code, l2i) == code \in DOMAIN l2i

\* g.loc[(g["year"] == Y) & (g["code_in_vocab"]), "code_norm"].unique()
TargetCodes(g, Y, l2i) ==
    {g[i].code_norm : i \in {j \in DOMAIN g :
                               g[j].year = Y /\ CodeInVocab(g[j].code_norm, l2i)}}

\* Slip: the index of a code is used as a 1-based position, with the last
\* position wrapping to the first.
MultiHotShifted(target_codes, l2i) ==
    LET K == Cardinality(DOMAIN l2i)
    IN  [k \in 1..K |-> IF \E c \in target_codes : (l2i[c] + 1) % K = k - 1
                        THEN 1 ELSE 0]

\* multi_hot = [0]*K; for c in target_codes: multi_hot[label_to_id[c]] = 1
\* (Python index k is position k+1 here)
MultiHot(target_codes, l2i) ==
    LET K == Cardinality(DOMAIN l2i)
    IN  [k \in 1..K |-> IF \E c \in target_codes : l2i[c] = k - 1 THEN 1 ELSE 0]

\* Slip: the history check lets a window start one year before min_year.
NotEnoughHistoryLate(hist_window, lo) == SetMin(Range(hist_window)) < lo - 1

\* if min(hist_window) < min_year: continue
NotEnoughHistory(hist_window, lo) == SetMin(Range(hist_window)) < lo

\* One pass of the body of `for Y in years` (lines 54-78):
\* an exception, a `continue`, or a row appended.
Iteration(g, pid, Y, dtype, l2i, H, lo) ==
    IF dtype = "float64"
    THEN [kind |-> "raise", exc |-> "TypeError", row |-> <<>>]   \* range(float)
    ELSE LET hist_window == HistWindow(Y, H) IN
         IF hist_window = <<>>
         THEN [kind |-> "raise", exc |-> "ValueError", row |-> <<>>] \* min([])
         ELSE IF NotEnoughHistory(hist_window, lo)
         THEN [kind |-> "continue", exc |-> "none", row |-> <<>>]
         ELSE [kind |-> "append", exc |-> "none",
               row |-> [patient_id       |-> pid,
                        target_year      |-> Y,
                        hist_years       |-> hist_window,
                        hist_codes       |-> Hist(g, hist_window),
                        target_multi_hot |-> MultiHot(TargetCodes(g, Y, l2i), l2i)]]

\* The (patient, year) pairs the two nested loops visit, in visiting order.
LoopPairs(df) ==
    LET keys == GroupKeys(df)
    IN  Concat([k \in DOMAIN keys |->
                  LET ys == GroupYears(Group(df, keys[k]))
                  IN  [j \in DOMAIN ys |-> <<keys[k], ys[j]>>]])

\* The loops of lines 50-78 from pair number k on; acc is `rows` so far.
RECURSIVE Loop(_, _, _, _, _, _, _, _)
Loop(df, pairs, k, acc, dtype, l2i, H, lo) ==
    IF k > Len(pairs) THEN [rows |-> acc, raised |-> "none"]
    ELSE LET it == Iteration(Group(df, pairs[k][1]), pairs[k][1], pairs[k][2],
                             dtype, l2i, H, lo)
         IN  CASE it.kind = "raise"    -> [rows |-> acc, raised |-> it.exc]
               [] it.kind = "continue" -> Loop(df, pairs, k + 1, acc, dtype, l2i, H, lo)
               [] OTHER -> Loop(df, pairs, k + 1, Append(acc, it.row), dtype, l2i, H, lo)

\* Lines 44-78: the rows built and the exception that stopped the loops.
BuildRows(events, l2i, H, lo, hi) ==
    LET df == SortByYear(FilterYears(events, lo, hi))
    IN  Loop(df, LoopPairs(df), 1, <<>>, YearDtype(events), l2i, H, lo)

\* Names bound in the namespace of module sequence.py (lines 29-32): the
\* free names train_until and val_until of lines 83-85 are looked up here.
ModuleGlobals ==
    [name \in {"pd", "Dict", "Tuple", "build_yearly_sequences"} |-> name]

\* Lines 83-85 for given cutoffs.
TemporalSplit(df_seqs, train_until, val_until) ==
    LET InTrain(r) == r.target_year <= train_until
        InVal(r)   == r.target_year > train_until /\ r.target_year <= val_until
        InTest(r)  == r.target_year > val_until
    IN  <<SelectSeq(df_seqs, InTrain), SelectSeq(df_seqs, InVal),
          SelectSeq(df_seqs, InTest)>>

\* Lines 80-87: pd.DataFrame(rows) has no column at all when rows is empty,
\* so df_seqs["target_year"] raises KeyError; otherwise the lookup of
\* train_until is the next thing evaluated.
SplitStage(built_rows) ==
    IF built_rows = <<>> THEN [raised |-> "KeyError", ret |-> <<>>]
    ELSE IF ~({"train_until", "val_until"} \subseteq DOMAIN ModuleGlobals)
    THEN [raised |-> "NameError", ret |-> <<>>]
    ELSE [raised |-> "none",
          ret |-> TemporalSplit(built_rows, ModuleGlobals["train_until"],
                                ModuleGlobals["val_until"])]

\* The whole call: what `rows` holds when it ends, how it ends.
Outcome(events, l2i, H, lo, hi) ==
    LET b == BuildRows(events, l2i, H, lo, hi)
    IN  IF b.raised # "none"
        THEN [rows |-> b.rows, raised |-> b.raised, ret |-> <<>>]
        ELSE LET s == SplitStage(b.rows)
             IN  [rows |-> b.rows, raised |-> s.raised, ret |-> s.ret]

-----------------------------------------------------------------------------
(* vocab.py: build_label_vocab *)

\* Slip: events are counted instead of distinct patients (.count()).
EventCount(df, code) == Cardinality({j \in DOMAIN df : df[j].code_norm = code})

\* .groupby(["code_norm"])["patient_id"].nunique() for one code
PatientCount(df, code) ==
    Cardinality({df[i].patient_id : i \in {j \in DOMAIN df : df[j].code_norm = code}})

CodesPresent(df) == {df[i].code_norm : i \in DOMAIN df}

\* .sort_values(ascending=False): the codes by descending patient count.
\* The order among codes of equal count is whatever the sort yields, so
\* every descending order is a possible outcome.
SortOrders(df) ==
    LET cs == CodesPresent(df)
        n  == Cardinality(cs)
    IN  {s \in [1..n -> cs] :
            /\ Injective(s)
            /\ \A i \in 1..n : i < n => PatientCount(df, s[i]) >= PatientCount(df, s[i+1])}

\* grp[grp >= min_patients]
AtLeast(order, df, minp) ==
    LET Keep(c) == PatientCount(df, c) >= minp IN SelectSeq(order, Keep)

\* grp.head(top_k) when top_k is not None
HeadK(s, k) ==
    IF k = <<>> THEN s
    ELSE IF k[1] >= Len(s) THEN s
    ELSE IF k[1] >= 0 THEN [i \in 1..k[1] |-> s[i]]
    ELSE [i \in 1..(IF Len(s) + k[1] > 0 THEN Len(s) + k[1] ELSE 0) |-> s[i]]

\* Slip: indices start at 1 (enumerate(..., 1)).
EnumerateFromOne(s) == [c \in Range(s) |-> IndexOf(s, c)]

\* {code: i for i, code in enumerate(grp.index.tolist())}
Enumerate(s) == [c \in Range(s) |-> IndexOf(s, c) - 1]

\* The dict build_label_vocab returns for one outcome of the sort.
LabelVocab(order, df, minp, k) == Enumerate(HeadK(AtLeast(order, df, minp), k))

-----------------------------------------------------------------------------
(* Input sets *)

SeqTables == TablesOver(RowKinds(PatientOrder, DateOrder, CodeOrder), MaxEvents)

VocabTables ==
    TablesOver(RowKinds(VocabPatientOrder, <<"2019-07-21">>, VocabCodeOrder),
               MaxVocabEvents)

\* The dicts build_label_vocab can return over the codes of CodeOrder.
Vocabularies ==
    LET cs == Range(CodeOrder)
    IN  UNION { {Enumerate(s) : s \in {t \in [1..n -> cs] : Injective(t)}} :
                n \in 0..Cardinality(cs) }

-----------------------------------------------------------------------------
(* Spec: one call of build_yearly_sequences *)

Init ==
    /\ df_events \in SeqTables
    /\ label_to_id \in Vocabularies
    /\ history_years \in HistoryChoices
    /\ min_year \in MinYears
    /\ max_year \in MaxYears
    /\ min_patients = 1
    /\ top_k = <<>>
    /\ pc = "call"
    /\ rows = <<>>
    /\ raised = "none"
    /\ ret = <<>>

BuildYearlySequences ==
    /\ pc = "call"
    /\ LET o == Outcome(df_events, label_to_id, history_years, min_year, max_year)
       IN  /\ rows' = o.rows
           /\ raised' = o.raised
           /\ ret' = o.ret
    /\ pc' = "done"
    /\ UNCHANGED <<df_events, label_to_id, history_years, min_year, max_year,
                   min_patients, top_k>>

Next == BuildYearlySequences

Spec == Init /\ [][Next]_vars

-----------------------------------------------------------------------------
(* SpecVocab: one call of build_label_vocab *)

InitVocab ==
    /\ df_events \in VocabTables
    /\ min_patients \in MinPatientsChoices
    /\ top_k \in TopKChoices
    /\ label_to_id = <<>>
    /\ history_years = 1
    /\ min_year = 2018
    /\ max_year = 2020
    /\ pc = "call"
    /\ rows = <<>>
    /\ raised = "none"
    /\ ret = <<>>

BuildLabelVocab(order) ==
    /\ pc = "call"
    /\ label_to_id' = LabelVocab(order, df_events, min_patients, top_k)
    /\ pc' = "done"
    /\ UNCHANGED <<df_events, history_years, min_year, max_year,
                   min_patients, top_k, rows, raised, ret>>

NextVocab == \E order \in SortOrders(df_events) : BuildLabelVocab(order)

SpecVocab == InitVocab /\ [][NextVocab]_vars

-----------------------------------------------------------------------------
(* Properties of build_yearly_sequences, stated on the input table.         *)
(* An example is emitted when line 72 appends it to `rows`.                 *)

Codes == Range(CodeOrder)

\* number of occurrences of x in the sequence s
Occ(x, s) == Cardinality({i \in DOMAIN s : s[i] = x})

\* rows of the input table of patient p whose date parses to year y
EventsOf(p, y) ==
    {i \in DOMAIN df_events :
        df_events[i].patient_id = p /\ ToYear(df_events[i].visit_date) = y}

Emitted == Range(rows)

\* C1 (no future leakage): in every emitted example (p, Y), each code
\* occurs in the whole history at most as often as p has events with that
\* code dated in a year strictly before Y; nothing comes from an event of
\* year >= Y or from another patient.
C1_NoFutureLeakage ==
    pc = "done" =>
      \A r \in Emitted : \A c \in Codes :
        LET occurrences ==
              LET n[i \in 0..Len(r.hist_codes)] ==
                    IF i = 0 THEN 0 ELSE n[i-1] + Occ(c, r.hist_codes[i])
              IN  n[Len(r.hist_codes)]
            earlier == {i \in DOMAIN df_events :
                          /\ df_events[i].patient_id = r.patient_id
                          /\ df_events[i].code_norm = c
                          /\ ToYear(df_events[i].visit_date) # NaN
                          /\ ToYear(df_events[i].visit_date) < r.target_year}
        IN  occurrences <= Cardinality(earlier)

\* an example with a non-empty history, while another patient has an event
\* in a year of its window with a code the history does not hold
C1_Witness ==
    /\ pc = "done"
    /\ \E r \in Emitted :
         /\ \E i \in DOMAIN r.hist_codes : r.hist_codes[i] # <<>>
         /\ \E j \in DOMAIN df_events :
              /\ df_events[j].patient_id # r.patient_id
              /\ ToYear(df_events[j].visit_date) \in Range(r.hist_years)
              /\ \A i \in DOMAIN r.hist_codes :
                   df_events[j].code_norm \notin Range(r.hist_codes[i])

\* C2 (window contiguity): every emitted example has hist_years =
\* [target_year-H, ..., target_year-1], of length H = history_years >= 1,
\* strictly increasing, with no year below min_year, and hist_codes of the
\* same length.
C2_WindowContiguity ==
    pc = "done" =>
      \A r \in Emitted :
        /\ history_years >= 1
        /\ Len(r.hist_years) = history_years
        /\ Len(r.hist_codes) = history_years
        /\ \A i \in 1..history_years :
             /\ r.hist_years[i] = r.target_year - history_years + (i - 1)
             /\ r.hist_years[i] >= min_year
        /\ \A i \in 1..history_years :
             i < history_years => r.hist_years[i] < r.hist_years[i+1]

\* an example with a two-year window that starts exactly at min_year
C2_Witness ==
    /\ pc = "done"
    /\ \E r \in Emitted :
         /\ Len(r.hist_years) = 2
         /\ r.hist_years[1] = min_year

\* C4 (multi-hot correctness): in every emitted example (p, Y) the target
\* vector has length K = size of label_to_id, holds only 0 and 1, and its
\* 1-positions are exactly the indices of the vocabulary codes p has in
\* year Y.
C4_MultiHot ==
    pc = "done" =>
      \A r \in Emitted :
        LET K == Cardinality(DOMAIN label_to_id)
            target == {df_events[i].code_norm :
                         i \in EventsOf(r.patient_id, r.target_year)}
        IN  /\ Len(r.target_multi_hot) = K
            /\ \A k \in 1..K : r.target_multi_hot[k] \in {0, 1}
            /\ {k - 1 : k \in {j \in 1..K : r.target_multi_hot[j] = 1}}
                 = {label_to_id[c] : c \in target \cap DOMAIN label_to_id}

\* an example with the bit of its one vocabulary code set, whose target
\* year also holds a code outside the vocabulary
C4_Witness ==
    /\ pc = "done"
    /\ \E r \in Emitted :
         /\ r.target_multi_hot = <<1>>
         /\ \E i \in EventsOf(r.patient_id, r.target_year) :
              df_events[i].code_norm \notin DOMAIN label_to_id

\* an example with a two-code vocabulary: the code of index 1 is a target,
\* the code of index 0 is not
C4_SecondIndex ==
    /\ pc = "done"
    /\ \E r \in Emitted : r.target_multi_hot = <<0, 1>>

\* C10 (history assembly): in every emitted example of patient p, position
\* i of hist_codes holds each code exactly as often as p has events with
\* that code in year hist_years[i], in the vocabulary or not; an eventless
\* year gives an empty list and the window keeps its length.
C10_HistoryAssembly ==
    pc = "done" =>
      \A r \in Emitted :
        /\ Len(r.hist_codes) = history_years
        /\ DOMAIN r.hist_codes = DOMAIN r.hist_years
        /\ \A i \in DOMAIN r.hist_codes :
             /\ Len(r.hist_codes[i])
                  = Cardinality(EventsOf(r.patient_id, r.hist_years[i]))
             /\ \A c \in Codes :
                  Occ(c, r.hist_codes[i])
                    = Cardinality({j \in EventsOf(r.patient_id, r.hist_years[i]) :
                                     df_events[j].code_norm = c})

\* an example whose history holds the same code twice in one year, the
\* code being outside the vocabulary
C10_Witness ==
    /\ pc = "done"
    /\ \E r \in Emitted : \E i \in DOMAIN r.hist_codes : \E c \in Codes :
         /\ Occ(c, r.hist_codes[i]) = 2
         /\ c \notin DOMAIN label_to_id

\* an example with a two-year window one year of which has no event: the
\* position is an empty list
C10_EmptyYear ==
    /\ pc = "done"
    /\ \E r \in Emitted :
         /\ Len(r.hist_codes) = 2
         /\ r.hist_codes[1] = <<>>
         /\ r.hist_codes[2] # <<>>

\* the (patient, year) pairs with an event of a year in [min_year, max_year]
\* and a full window: Y - H >= min_year
ExpectedPairs ==
    {<<df_events[i].patient_id, ToYear(df_events[i].visit_date)>> :
        i \in {j \in DOMAIN df_events :
                 /\ InYearRange(ToYear(df_events[j].visit_date), min_year, max_year)
                 /\ ToYear(df_events[j].visit_date) - history_years >= min_year}}

\* C9 (emission completeness), for history_years >= 1: the emitted examples
\* are exactly one per expected (patient, year) pair.
C9_EmissionCompleteness ==
    (pc = "done" /\ history_years >= 1) =>
      /\ {<<r.patient_id, r.target_year>> : r \in Emitted} = ExpectedPairs
      /\ Len(rows) = Cardinality(ExpectedPairs)

\* C3 (split exclusivity): a call that emits examples returns three sets,
\* and every emitted example is in exactly one of them.
C3_SplitExclusivity ==
    (pc = "done" /\ rows # <<>>) =>
      /\ raised = "none"
      /\ Len(ret) = 3
      /\ \A r \in Emitted :
           Cardinality({k \in 1..3 : r \in Range(ret[k])}) = 1

\* C7 (degenerate inputs do not raise): a call with an empty table, an
\* empty vocabulary, no example to emit or history_years <= 0 returns, or
\* is rejected as a configuration error.
C7_DegenerateInputs ==
    (/\ pc = "done"
     /\ \/ df_events = <<>>
        \/ DOMAIN label_to_id = {}
        \/ ExpectedPairs = {}
        \/ history_years <= 0)
    => raised \in {"none", "ConfigurationError"}

\* the table without the rows whose date does not parse or whose year is
\* outside [min_year, max_year]
WellDated(df) ==
    LET Keep(e) == InYearRange(ToYear(e.visit_date), min_year, max_year)
    IN  SelectSeq(df, Keep)

\* C8 (malformed dates are filtered, never fatal), for history_years >= 1:
\* the call ends as it ends on the table without the unparseable and
\* out-of-range rows, with the same examples.
C8_MalformedDatesFiltered ==
    (pc = "done" /\ history_years >= 1) =>
      LET clean == Outcome(WellDated(df_events), label_to_id, history_years,
                           min_year, max_year)
      IN  /\ rows = clean.rows
          /\ raised = clean.raised
          /\ ret = clean.ret

\* every date of the table parses
AllDatesParse == YearDtype(df_events) = "int"

\* When every date parses and history_years >= 1, the examples built are
\* exactly one per expected pair (the part of C9 the loops do deliver).
C9_WhenDatesParse ==
    (pc = "done" /\ history_years >= 1 /\ AllDatesParse) =>
      /\ {<<r.patient_id, r.target_year>> : r \in Emitted} = ExpectedPairs
      /\ Len(rows) = Cardinality(ExpectedPairs)

\* When every date parses, rows whose year is outside [min_year, max_year]
\* change nothing (the part of C8 the filter does deliver).
C8_OutOfRangeOnly ==
    (pc = "done" /\ AllDatesParse) =>
      LET clean == Outcome(WellDated(df_events), label_to_id, history_years,
                           min_year, max_year)
      IN  rows = clean.rows /\ raised = clean.raised

-----------------------------------------------------------------------------
(* Properties of build_label_vocab *)

\* number of distinct patients with at least one event of code c
DistinctPatients(c) ==
    Cardinality({p \in Range(VocabPatientOrder) :
                   \E i \in DOMAIN df_events :
                     df_events[i].patient_id = p /\ df_events[i].code_norm = c})

\* the codes whose number of distinct patients reaches min_patients
Qualifying ==
    {c \in CodesPresent(df_events) : DistinctPatients(c) >= min_patients}

\* C5 (vocabulary selection): without top_k the vocabulary is exactly the
\* qualifying codes; with top_k it is top_k of them (all, when fewer), none
\* left out having more patients than one kept; indices follow descending
\* patient count.
C5_VocabSelection ==
    pc = "done" =>
      LET V == DOMAIN label_to_id IN
      /\ V \subseteq Qualifying
      /\ top_k = <<>> => V = Qualifying
      /\ top_k # <<>> =>
           /\ Cardinality(V) = IF top_k[1] < Cardinality(Qualifying)
                               THEN top_k[1] ELSE Cardinality(Qualifying)
           /\ \A c \in V : \A d \in Qualifying \ V :
                DistinctPatients(d) <= DistinctPatients(c)
      /\ \A c, d \in V :
           label_to_id[c] < label_to_id[d] => DistinctPatients(c) >= DistinctPatients(d)

\* top_k = 1 cuts a two-code selection down to the more prevalent code,
\* while a code with two events of one patient counts one patient
C5_Witness ==
    /\ pc = "done"
    /\ top_k = <<1>>
    /\ Cardinality(DOMAIN label_to_id) = 1
    /\ \E c \in DOMAIN label_to_id : \E d \in Qualifying :
         /\ DistinctPatients(d) < DistinctPatients(c)
         /\ Occ(d, [i \in DOMAIN df_events |-> df_events[i].code_norm]) = 2
         /\ DistinctPatients(d) = 1

\* Scenario A: A has three patients, B one, min_patients = 2: {A: 0}
C5_ScenarioA ==
    /\ pc = "done"
    /\ min_patients = 2
    /\ top_k = <<>>
    /\ DistinctPatients("A") = 3
    /\ DistinctPatients("B") = 1
    /\ label_to_id = [c \in {"A"} |-> 0]

\* C6 (vocabulary injectivity): different codes get different indices, and
\* the indices are exactly 0 .. K-1 for K the number of codes.
C6_VocabInjective ==
    pc = "done" =>
      LET V == DOMAIN label_to_id
          K == Cardinality(V)
      IN  /\ \A c, d \in V : c # d => label_to_id[c] # label_to_id[d]
          /\ {label_to_id[c] : c \in V} = 0..(K - 1)

\* a vocabulary of three codes, two of them with the same patient count
C6_Witness ==
    /\ pc = "done"
    /\ Cardinality(DOMAIN label_to_id) = 3
    /\ \E c, d \in DOMAIN label_to_id :
         c # d /\ DistinctPatients(c) = DistinctPatients(d)

=============================================================================
